---- MODULE Spec2Model ----
(***************************************************************************)
(* Model of RuleBasedPCG.cpp: the cellular-automata smoothing pass         *)
(* (cellularAutomata) and the drunk-agent carver (drunkAgent).             *)
(*                                                                         *)
(* A Map is a function [0..H-1 -> [0..W-1 -> Int]]; the first index is the *)
(* row (the agent's x), the second the column (the agent's y).             *)
(* Probabilities are fixed-point numbers in hundredths (20 is 0.2); the    *)
(* threshold U of the automaton is a rational <<numerator, denominator>>.  *)
(***************************************************************************)
EXTENDS Integers, Sequences, FiniteSets, TLC

\* ---- bounds of the model ------------------------------------------------
MaxH == 2
MaxW == 3
MaxR == 2
MaxJ == 2
MaxI == 2
MaxRoom == 2
MaxSeed == 1

\* ---- input domains --------------------------------------------------------
\* thresholds 0, 1/2, 5/9, 1, 1.01 and a negative one
UValues == {<<0, 1>>, <<1, 2>>, <<5, 9>>, <<1, 1>>, <<101, 100>>, <<-1, 2>>}
\* outcomes of chance(rng), a real in [0,1): for probabilities that are
\* multiples of 0.01 the draws 0.00 and 0.99 produce every outcome of "<"
ChanceValues == {0, 99}
NoRoll == -1
\* probabilities passed to drunkAgent: 0.0 (the roll never succeeds) and 1.0
\* (it always succeeds); the increments and the resets of the code then take
\* them through values for which the roll can go either way
ProbGenerateRoomArgs == {0, 100}
ProbChangeDirectionArgs == {0, 100}
ProbIncreaseRoomArgs == {5}
ProbIncreaseChangeArgs == {3}

VARIABLES H, W, map, agentX, agentY, caArgs, iteration, mainPc,
          pc, newMap, dx, dy, J, I, roomSizeX, roomSizeY,
          probGenerateRoom, probIncreaseRoom,
          probChangeDirection, probIncreaseChange,
          argProbGenerateRoom, argProbChangeDirection,
          j, i, roll, marked, rooms

vars == <<H, W, map, agentX, agentY, caArgs, iteration, mainPc,
          pc, newMap, dx, dy, J, I, roomSizeX, roomSizeY,
          probGenerateRoom, probIncreaseRoom,
          probChangeDirection, probIncreaseChange,
          argProbGenerateRoom, argProbChangeDirection,
          j, i, roll, marked, rooms>>

driverVars == <<H, W, map, agentX, agentY, caArgs>>
\* the loop counter of main and its position: at the loop test ("loop"), at
\* the drunkAgent call of the current iteration, or past the loop
loopVars == <<iteration, mainPc>>
frameVars == <<newMap, dx, dy, J, I, roomSizeX, roomSizeY,
               probGenerateRoom, probIncreaseRoom,
               probChangeDirection, probIncreaseChange,
               argProbGenerateRoom, argProbChangeDirection,
               j, i, roll, marked, rooms>>

\* ---- Map ------------------------------------------------------------------
Cells(w, h) == (0..(h - 1)) \X (0..(w - 1))
Maps(w, h) == [0..(h - 1) -> [0..(w - 1) -> {0, 1}]]
ConstMap(w, h, v) == [x \in 0..(h - 1) |-> [y \in 0..(w - 1) |-> v]]
CheckerMap(w, h) == [x \in 0..(h - 1) |-> [y \in 0..(w - 1) |-> (x + y + 1) % 2]]
Occupied(m, w, h) == {c \in Cells(w, h) : m[c[1]][c[2]] = 1}

InBounds(x, y, w, h) == x >= 0 /\ x < h /\ y >= 0 /\ y < w

\* ---- cellularAutomata -----------------------------------------------------
\* v & 1, v | (b << 1), (v >> 1) & 1 on the two-bit cell values
Bit0(v) == v % 2
OrBit1(v, b) == IF b = 1 /\ (v \div 2) % 2 = 0 THEN v + 2 ELSE v
Bit1(v) == (v \div 2) % 2

\* the value one window position adds to count (lines 43-49)
NeighbourValueInPlace(m, ni, nj, w, h) ==
    IF InBounds(ni, nj, w, h) THEN Bit1(m[ni][nj]) ELSE 1
NeighbourValueBorderEmpty(m, ni, nj, w, h) ==
    IF InBounds(ni, nj, w, h) THEN Bit0(m[ni][nj]) ELSE 0
NeighbourValue(m, ni, nj, w, h) ==
    IF InBounds(ni, nj, w, h) THEN Bit0(m[ni][nj]) ELSE 1

\* the two nested window loops, position k of (2R+1)^2 in loop order
CountFromHalfOpen(m, ci, cj, w, h, R, k) ==
    Cardinality({d \in ((-R)..(R - 1)) \X ((-R)..(R - 1)) :
                    NeighbourValue(m, ci + d[1], cj + d[2], w, h) = 1})
RECURSIVE CountFrom(_, _, _, _, _, _, _)
CountFrom(m, ci, cj, w, h, R, k) ==
    IF k >= (2 * R + 1) * (2 * R + 1) THEN 0
    ELSE NeighbourValue(m, ci + (k \div (2 * R + 1)) - R,
                           cj + (k % (2 * R + 1)) - R, w, h)
         + CountFrom(m, ci, cj, w, h, R, k + 1)

\* newVal = (ratio >= U) ? 1 : 0 with ratio = count / total, U = U[1] / U[2]
NewValStrict(count, total, U) == IF count * U[2] > U[1] * total THEN 1 ELSE 0
NewValAtMost(count, total, U) == IF count * U[2] <= U[1] * total THEN 1 ELSE 0
NewVal(count, total, U) == IF count * U[2] >= U[1] * total THEN 1 ELSE 0

\* first pass: cells k, k+1, ... in row-major order, each written into the
\* same map the later cells read
RECURSIVE FirstPass(_, _, _, _, _, _)
FirstPass(m, w, h, R, U, k) ==
    IF k >= w * h THEN m
    ELSE LET ci == k \div w
             cj == k % w
             count == CountFrom(m, ci, cj, w, h, R, 0)
             total == (2 * R + 1) * (2 * R + 1)
             newVal == NewVal(count, total, U)
             \* the write to cell k is done before cell k + 1 is visited
         IN CHOOSE r \in {FirstPass(x, w, h, R, U, k + 1) :
                              x \in {[m EXCEPT ![ci][cj] = OrBit1(m[ci][cj], newVal)]}} : TRUE

SecondPassSkipped(m, w, h) == m
SecondPass(m, w, h) == [x \in 0..(h - 1) |-> [y \in 0..(w - 1) |-> Bit1(m[x][y])]]

cellularAutomata(currentMap, w, h, R, U) ==
    SecondPass(FirstPass(currentMap, w, h, R, U, 0), w, h)

\* ---- drunkAgent -----------------------------------------------------------
Cardinals == {<<-1, 0>>, <<1, 0>>, <<0, -1>>, <<0, 1>>}
\* dx, dy from dir = dirDist(rng) in 0..3
DirDx(dir) == IF dir = 0 THEN -1 ELSE IF dir = 1 THEN 1 ELSE 0
DirDyDiagonal(dir) == IF dir = 2 THEN -1 ELSE 1
DirDy(dir) == IF dir = 2 THEN -1 ELSE IF dir = 3 THEN 1 ELSE 0

ResetProbChange == 20
ResetProbRoom == 10

BlankNewMap(currentMap, w, h) == ConstMap(w, h, 0)
CopyMap(currentMap, w, h) == currentMap

MarkCellNever(m, x, y, w, h) == m
MarkCell(m, x, y, w, h) ==
    IF InBounds(x, y, w, h) THEN [m EXCEPT ![x][y] = 1] ELSE m

CanMoveNoUpper(newX, newY, w, h) == newX >= 0 /\ newY >= 0
CanMove(newX, newY, w, h) == newX >= 0 /\ newX < h /\ newY >= 0 /\ newY < w

BounceProbIncrease(p, inc) == p + inc
BounceProb(p, inc) == p

StampRoom(m, ax, ay, sx, sy, w, h) ==
    LET halfX == sx \div 2
        halfY == sy \div 2
    IN [x \in 0..(h - 1) |-> [y \in 0..(w - 1) |->
          IF \E dxRoom \in (-halfX)..halfX, dyRoom \in (-halfY)..halfY :
                 x = ax + dxRoom /\ y = ay + dyRoom
          THEN 1 ELSE m[x][y]]]

NoMap == << >>

FrameIdle ==
    /\ newMap = NoMap /\ dx = 0 /\ dy = 0 /\ J = 0 /\ I = 0
    /\ roomSizeX = 0 /\ roomSizeY = 0
    /\ probGenerateRoom = 0 /\ probIncreaseRoom = 0
    /\ probChangeDirection = 0 /\ probIncreaseChange = 0
    /\ argProbGenerateRoom = 0 /\ argProbChangeDirection = 0
    /\ j = 0 /\ i = 0 /\ roll = NoRoll /\ marked = {} /\ rooms = {}

\* the locals of drunkAgent cease to exist when it returns
FrameReset ==
    /\ newMap' = NoMap /\ dx' = 0 /\ dy' = 0 /\ J' = 0 /\ I' = 0
    /\ roomSizeX' = 0 /\ roomSizeY' = 0
    /\ probGenerateRoom' = 0 /\ probIncreaseRoom' = 0
    /\ probChangeDirection' = 0 /\ probIncreaseChange' = 0
    /\ argProbGenerateRoom' = 0 /\ argProbChangeDirection' = 0
    /\ j' = 0 /\ i' = 0 /\ roll' = NoRoll /\ marked' = {} /\ rooms' = {}

\* the maps an agent run starts from: all empty, as in main, or a checkerboard
AgentGrids(w, h) == {ConstMap(w, h, 0), CheckerMap(w, h)}

\* main, up to the simulation loop, over bounded maps; anyMap tells whether
\* the map is any binary grid or one of AgentGrids, centred whether the agent
\* starts at (mapRows / 2, mapCols / 2) or anywhere in the map
InitDriver(anyMap, centred) ==
    /\ H \in 1..MaxH /\ W \in 1..MaxW
    /\ map \in IF anyMap THEN Maps(W, H) ELSE AgentGrids(W, H)
    /\ agentX \in IF centred THEN {H \div 2} ELSE 0..(H - 1)
    /\ agentY \in IF centred THEN {W \div 2} ELSE 0..(W - 1)
    /\ caArgs = << >>
    /\ iteration = 0 /\ mainPc = "loop"
    /\ pc = "main"
    /\ FrameIdle

Init == InitDriver(FALSE, FALSE)
InitCA == InitDriver(TRUE, TRUE)

\* myMap = cellularAutomata(myMap, W, H, R, U): line 216
CellularAutomataCall(R, U) ==
    /\ pc = "main"
    /\ caArgs' = <<map, R, U>>
    /\ map' = cellularAutomata(map, W, H, R, U)
    /\ UNCHANGED <<H, W, agentX, agentY, pc>>
    /\ UNCHANGED frameVars

\* a cellularAutomata call with any radius and threshold of the model
CellularAutomataStep ==
    /\ pc = "main"
    /\ \E R \in 0..MaxR, U \in UValues : CellularAutomataCall(R, U)
    /\ UNCHANGED loopVars

\* int dx = 0, dy = 1: line 104
StaleHeading == <<1, 0>>
InitialHeading == <<0, 1>>

\* entry of drunkAgent with the given arguments: lines 93-106; caArgs holds
\* the arguments of a cellularAutomata call only while its result is the
\* latest generator output
DrunkAgentEntry(aJ, aI, sX, sY, pRoom, pIncRoom, pChange, pIncChange) ==
    /\ pc = "main"
    /\ pc' = "drunkAgent"
    /\ newMap' = CopyMap(map, W, H)
    /\ dx' = InitialHeading[1] /\ dy' = InitialHeading[2]
    /\ J' = aJ /\ I' = aI
    /\ roomSizeX' = sX /\ roomSizeY' = sY
    /\ probGenerateRoom' = pRoom
    /\ probIncreaseRoom' = pIncRoom
    /\ probChangeDirection' = pChange
    /\ probIncreaseChange' = pIncChange
    /\ argProbGenerateRoom' = pRoom
    /\ argProbChangeDirection' = pChange
    /\ j' = 0 /\ i' = 0 /\ roll' = NoRoll /\ marked' = {} /\ rooms' = {}
    /\ caArgs' = << >>
    /\ UNCHANGED <<H, W, map, agentX, agentY>>

\* a drunkAgent call with any arguments of the model
Call ==
    /\ pc = "main"
    /\ \E aJ \in 0..MaxJ, aI \in 0..MaxI,
          sX \in 1..MaxRoom, sY \in 1..MaxRoom,
          pGenerateRoom \in ProbGenerateRoomArgs,
          pIncreaseRoom \in ProbIncreaseRoomArgs,
          pChangeDirection \in ProbChangeDirectionArgs,
          pIncreaseChange \in ProbIncreaseChangeArgs :
            DrunkAgentEntry(aJ, aI, sX, sY, pGenerateRoom, pIncreaseRoom,
                            pChangeDirection, pIncreaseChange)
    /\ UNCHANGED loopVars

\* chance(rng) < probability: lines 130, 141
RollSucceedsAbove(r, p) == r > p
RollSucceeds(r, p) == r < p

InStep == pc = "drunkAgent" /\ j < J /\ i < I
AtRoomDecision == pc = "drunkAgent" /\ j < J /\ i >= I
AtReturn == pc = "drunkAgent" /\ j >= J

MarkStep ==
    /\ newMap' = MarkCell(newMap, agentX, agentY, W, H)
    /\ marked' = IF InBounds(agentX, agentY, W, H)
                 THEN marked \cup {<<agentX, agentY>>} ELSE marked

\* one inner step whose candidate position is valid: lines 108-120, 129-137
StepMove ==
    /\ InStep
    /\ CanMove(agentX + dx, agentY + dy, W, H)
    /\ MarkStep
    /\ agentX' = agentX + dx
    /\ agentY' = agentY + dy
    /\ \E r \in ChanceValues :
         /\ roll' = r
         /\ IF RollSucceeds(r, probChangeDirection)
            THEN /\ \E dir \in 0..3 : dx' = DirDx(dir) /\ dy' = DirDy(dir)
                 /\ probChangeDirection' = ResetProbChange
            ELSE /\ UNCHANGED <<dx, dy>>
                 /\ probChangeDirection' = probChangeDirection + probIncreaseChange
    /\ i' = i + 1
    /\ UNCHANGED <<H, W, map, caArgs, pc, J, I, roomSizeX, roomSizeY,
                   probGenerateRoom, probIncreaseRoom, probIncreaseChange,
                   argProbGenerateRoom, argProbChangeDirection, j, rooms>>
    /\ UNCHANGED loopVars

\* `continue` (line 126) jumps to the ++i of the inner for (line 108)
ContinueIndexRetry(k) == k
ContinueIndex(k) == k + 1

\* one inner step that hits the border: lines 108-115, 121-127
StepBounce ==
    /\ InStep
    /\ ~CanMove(agentX + dx, agentY + dy, W, H)
    /\ MarkStep
    /\ \E dir \in 0..3 : dx' = DirDx(dir) /\ dy' = DirDy(dir)
    /\ probChangeDirection' = BounceProb(probChangeDirection, probIncreaseChange)
    /\ roll' = NoRoll
    /\ i' = ContinueIndex(i)
    /\ UNCHANGED <<H, W, map, agentX, agentY, caArgs, pc, J, I,
                   roomSizeX, roomSizeY,
                   probGenerateRoom, probIncreaseRoom, probIncreaseChange,
                   argProbGenerateRoom, argProbChangeDirection, j, rooms>>
    /\ UNCHANGED loopVars

\* the room decision after the I steps of a walk: lines 140-158
RoomDecision ==
    /\ AtRoomDecision
    /\ \E r \in ChanceValues :
         /\ roll' = r
         /\ IF RollSucceeds(r, probGenerateRoom)
            THEN /\ newMap' = StampRoom(newMap, agentX, agentY,
                                        roomSizeX, roomSizeY, W, H)
                 /\ rooms' = rooms \cup {<<agentX, agentY>>}
                 /\ probGenerateRoom' = ResetProbRoom
            ELSE /\ UNCHANGED <<newMap, rooms>>
                 /\ probGenerateRoom' = probGenerateRoom + probIncreaseRoom
    /\ j' = j + 1
    /\ i' = 0
    /\ UNCHANGED <<H, W, map, agentX, agentY, caArgs, pc, dx, dy, J, I,
                   roomSizeX, roomSizeY, probIncreaseRoom,
                   probChangeDirection, probIncreaseChange,
                   argProbGenerateRoom, argProbChangeDirection, marked>>
    /\ UNCHANGED loopVars

\* return newMap (line 161) and myMap = drunkAgent(...) in main (line 217)
DrunkAgentReturn ==
    /\ AtReturn
    /\ map' = newMap
    /\ pc' = "main"
    /\ FrameReset
    /\ UNCHANGED <<H, W, agentX, agentY, caArgs>>

Return == DrunkAgentReturn /\ UNCHANGED loopVars

Next == Call \/ StepMove \/ StepBounce \/ RoomDecision \/ Return
Spec == Init /\ [][Next]_vars

NextCA == CellularAutomataStep
SpecCA == InitCA /\ [][NextCA]_vars

\* the two generators called in any order, each on the previous output
NextMix == Next \/ CellularAutomataStep
SpecMix == Init /\ [][NextMix]_vars

\* drunkAgent called with increments large enough for a probability that
\* starts at 0.0 to reach 1.0 within the steps of one call
ProbIncreaseRoomSteep == {100}
ProbIncreaseChangeSteep == {50}

CallSteep ==
    /\ pc = "main"
    /\ \E aJ \in 0..MaxJ, aI \in 0..MaxI,
          sX \in 1..MaxRoom, sY \in 1..MaxRoom,
          pGenerateRoom \in ProbGenerateRoomArgs,
          pIncreaseRoom \in ProbIncreaseRoomSteep,
          pChangeDirection \in ProbChangeDirectionArgs,
          pIncreaseChange \in ProbIncreaseChangeSteep :
            DrunkAgentEntry(aJ, aI, sX, sY, pGenerateRoom, pIncreaseRoom,
                            pChangeDirection, pIncreaseChange)
    /\ UNCHANGED loopVars

NextSteep == CallSteep \/ StepMove \/ StepBounce \/ RoomDecision \/ Return
SpecSteep == Init /\ [][NextSteep]_vars

\* ---- main: the simulation loop, lines 187-231 ----------------------------
numIterations == 5
ca_R == 1
ca_U == <<1, 2>>
\* main passes J = 5, I = 10 and rooms of 5 x 3 on a 10 x 20 map; the model
\* passes the largest values of its bounds on maps of at most MaxH x MaxW
da_J == MaxJ
da_I == MaxI
da_roomSizeX == MaxRoom
da_roomSizeY == MaxRoom
da_probGenerateRoom == 10
da_probIncreaseRoom == 5
da_probChangeDirection == 20
da_probIncreaseChange == 3

\* main before the loop: a map of zeros, the agent in the middle
InitMain == InitDriver(FALSE, TRUE) /\ map = ConstMap(W, H, 0)

\* iteration < numIterations: line 209
LoopConditionInclusive(it) == it <= numIterations
LoopCondition(it) == it < numIterations

\* line 216
MainCellularAutomata ==
    /\ mainPc = "loop"
    /\ LoopCondition(iteration)
    /\ CellularAutomataCall(ca_R, ca_U)
    /\ mainPc' = "drunkAgent"
    /\ UNCHANGED iteration

\* line 217, the call
MainDrunkAgentCall ==
    /\ mainPc = "drunkAgent"
    /\ DrunkAgentEntry(da_J, da_I, da_roomSizeX, da_roomSizeY,
                       da_probGenerateRoom, da_probIncreaseRoom,
                       da_probChangeDirection, da_probIncreaseChange)
    /\ UNCHANGED loopVars

\* line 217, the assignment of the result, and ++iteration
MainDrunkAgentReturn ==
    /\ mainPc = "drunkAgent"
    /\ DrunkAgentReturn
    /\ iteration' = iteration + 1
    /\ mainPc' = "loop"

\* the loop test fails: lines 230-231
MainFinish ==
    /\ mainPc = "loop"
    /\ pc = "main"
    /\ ~LoopCondition(iteration)
    /\ mainPc' = "finished"
    /\ UNCHANGED <<iteration, pc>>
    /\ UNCHANGED driverVars
    /\ UNCHANGED frameVars

NextMain ==
    \/ MainCellularAutomata \/ MainDrunkAgentCall
    \/ StepMove \/ StepBounce \/ RoomDecision
    \/ MainDrunkAgentReturn \/ MainFinish
\* the program is one thread that runs until main returns
SpecMain == InitMain /\ [][NextMain]_vars /\ WF_vars(NextMain)

\* cellularAutomata on the 3 x 3 maps, started from the all-empty map of main
\* (line 171) or a map seeded with at most MaxSeed occupied cells
InitSquare3 ==
    /\ H = 3 /\ W = 3
    /\ map \in {m \in Maps(W, H) : Cardinality(Occupied(m, W, H)) <= MaxSeed}
    /\ agentX = H \div 2 /\ agentY = W \div 2
    /\ caArgs = << >>
    /\ iteration = 0 /\ mainPc = "loop"
    /\ pc = "main"
    /\ FrameIdle
SpecSquare3 == InitSquare3 /\ [][NextCA]_vars
\* ==== properties of cellularAutomata (checked under SpecCA) ================

\* the rule of the automaton read off the input grid alone
WindowCount(in, ci, cj, w, h, R) ==
    Cardinality({d \in ((-R)..R) \X ((-R)..R) :
                    \/ ~InBounds(ci + d[1], cj + d[2], w, h)
                    \/ in[ci + d[1]][cj + d[2]] = 1})
RuleMap(in, w, h, R, U) ==
    [x \in 0..(h - 1) |-> [y \in 0..(w - 1) |->
        IF WindowCount(in, x, y, w, h, R) * U[2] >= U[1] * (2 * R + 1) * (2 * R + 1)
        THEN 1 ELSE 0]]

\* C1: after cellularAutomata(in, W, H, R, U) on a binary grid, cell (i,j) is
\* 1 iff count / (2R+1)^2 >= U, where count is the number of window positions
\* outside the grid or holding 1 in the input grid (never an updated value).
C1_SynchronousRule ==
    caArgs # << >> => map = RuleMap(caArgs[1], W, H, caArgs[2], caArgs[3])

C1_Witness ==
    /\ caArgs # << >>
    /\ caArgs[2] = 1 /\ caArgs[3] = <<1, 2>>
    /\ H >= 2 /\ W >= 3
    /\ map # caArgs[1]
    /\ Occupied(map, W, H) \notin {{}, Cells(W, H)}
    /\ Occupied(caArgs[1], W, H) \notin {{}, Cells(W, H)}

\* C10: with U = 0 the result is the all-occupied grid and with any U > 1 the
\* all-empty grid, for every binary grid and every radius.
C10_ExtremeThresholds ==
    caArgs # << >> =>
        /\ (caArgs[3][1] = 0 => map = ConstMap(W, H, 1))
        /\ (caArgs[3][1] > caArgs[3][2] => map = ConstMap(W, H, 0))

C10_Witness ==
    /\ caArgs # << >>
    /\ caArgs[3] = <<101, 100>>
    /\ caArgs[1] = ConstMap(W, H, 1)
    /\ map = ConstMap(W, H, 0)
    /\ H >= 2 /\ W >= 2

\* C11: with R = 0 and a threshold 0 < U <= 1 cellularAutomata returns its
\* input grid, so any number of such steps leaves the grid as it was.
C11_RadiusZeroIdentity ==
    (/\ caArgs # << >>
     /\ caArgs[2] = 0
     /\ caArgs[3][1] > 0 /\ caArgs[3][1] <= caArgs[3][2]) => map = caArgs[1]

C11_Witness ==
    /\ caArgs # << >>
    /\ caArgs[2] = 0 /\ caArgs[3] = <<5, 9>>
    /\ H >= 2 /\ W >= 3
    /\ map = caArgs[1]
    /\ Occupied(map, W, H) \notin {{}, Cells(W, H)}

\* ---- the 3 x 3 grid with R = 1 (checked under SpecSquare3) ----------------
Corners(w, h) == {0, h - 1} \X {0, w - 1}
\* the window positions of cell c that cellularAutomata counts as occupied
\* because they lie outside the grid: its count on the all-empty grid
BoundaryCount(c, w, h, R) == CountFrom(ConstMap(w, h, 0), c[1], c[2], w, h, R, 0)
WindowSize(R) == (2 * R + 1) * (2 * R + 1)

\* C12: on the all-empty 3 x 3 grid with R = 1 and U = 0.5 one step makes
\* every corner cell occupied, its window holding 5 out-of-grid positions
\* counted as occupied out of 9.
C12_CornersBecomeOccupied ==
    (H = 3 /\ W = 3 /\ caArgs = <<ConstMap(W, H, 0), 1, <<1, 2>>>>) =>
        \A c \in Corners(W, H) :
            /\ map[c[1]][c[2]] = 1
            /\ CountFrom(caArgs[1], c[1], c[2], W, H, 1, 0) = 5
            /\ WindowSize(1) = 9

C12_Witness ==
    /\ H = 3 /\ W = 3
    /\ caArgs = <<ConstMap(W, H, 0), 1, <<1, 2>>>>
    /\ Occupied(map, W, H) = Corners(W, H)

\* C13 as claimed: on a 3 x 3 grid with R = 1 the window of every cell has at
\* most 5 in-grid positions and at least 4 out-of-grid positions counted as
\* occupied.
C13_EveryCellWindow ==
    (H = 3 /\ W = 3 /\ caArgs # << >> /\ caArgs[2] = 1) =>
        \A c \in Cells(W, H) :
            /\ BoundaryCount(c, W, H, 1) >= 4
            /\ WindowSize(1) - BoundaryCount(c, W, H, 1) <= 5

\* C13 as amended: that holds of the corner cells (4 in-grid, 5 out-of-grid
\* positions); an edge cell has 6 and 3, the centre 9 and 0.
C13_CornerWindow ==
    (H = 3 /\ W = 3 /\ caArgs # << >> /\ caArgs[2] = 1) =>
        \A c \in Cells(W, H) :
            LET out == BoundaryCount(c, W, H, 1)
                in == WindowSize(1) - out
            IN IF c \in Corners(W, H) THEN out = 5 /\ out >= 4 /\ in <= 5
               ELSE IF c = <<1, 1>> THEN out = 0 /\ in = 9
               ELSE out = 3 /\ in = 6

C13_Witness ==
    /\ H = 3 /\ W = 3
    /\ caArgs = <<ConstMap(W, H, 0), 1, <<5, 9>>>>
    /\ Occupied(map, W, H) = Corners(W, H)

\* ==== properties of drunkAgent (checked under Spec) ========================

\* C2: an agent that starts inside the grid is inside the grid after every
\* inner step and at the end of every call, over any sequence of calls.
C2_AgentInBounds ==
    0 <= agentX /\ agentX < H /\ 0 <= agentY /\ agentY < W

C2_Witness ==
    /\ AtReturn /\ J >= 2 /\ I >= 2
    /\ H >= 2 /\ W >= 2
    /\ agentX = H - 1 /\ agentY = W - 1
    /\ <<agentX, agentY>> \notin marked
    /\ Cardinality(marked) >= 2

\* C3: no drunkAgent call clears a cell: every cell that is 1 in the map
\* before a step of the program is 1 after it.
C3_OccupancyMonotone ==
    [][\A c \in Cells(W, H) : map[c[1]][c[2]] = 1 => map'[c[1]][c[2]] = 1]_vars

C3_Witness ==
    /\ AtReturn
    /\ \E c \in Cells(W, H) : map[c[1]][c[2]] = 1 /\ newMap[c[1]][c[2]] = 1
    /\ \E c \in Cells(W, H) : map[c[1]][c[2]] = 0 /\ newMap[c[1]][c[2]] = 1
    /\ rooms # {}

\* the in-grid cells of the rooms stamped at the centres in rs
RoomCellsAt(rs, sx, sy, w, h) ==
    {c \in Cells(w, h) : \E r \in rs :
        /\ c[1] - r[1] <= sx \div 2 /\ r[1] - c[1] <= sx \div 2
        /\ c[2] - r[2] <= sy \div 2 /\ r[2] - c[2] <= sy \div 2}

\* C4: the returned grid is the input grid with exactly the positions held at
\* the start of an inner step and the in-grid cells of every stamped room set
\* to 1; every other cell keeps its input value.
C4_ReturnedGrid ==
    [][AtReturn =>
        map' = [x \in 0..(H - 1) |-> [y \in 0..(W - 1) |->
                  IF <<x, y>> \in marked
                                  \cup RoomCellsAt(rooms, roomSizeX, roomSizeY, W, H)
                  THEN 1 ELSE map[x][y]]]]_vars

C4_Witness ==
    /\ AtReturn
    /\ rooms # {} /\ Cardinality(marked) >= 2
    /\ marked \ RoomCellsAt(rooms, roomSizeX, roomSizeY, W, H) # {}
    /\ \E c \in Cells(W, H) : map[c[1]][c[2]] = 1 /\ c \notin marked
          /\ c \notin RoomCellsAt(rooms, roomSizeX, roomSizeY, W, H)
    /\ \E c \in Cells(W, H) : newMap[c[1]][c[2]] = 0

\* the rectangles of sx by sy cells centred on (ax, ay); an even side can be
\* centred with the extra cell on either side
CentredSpans(a, n) ==
    {(a - (n \div 2))..(a - (n \div 2) + n - 1),
     (a - ((n - 1) \div 2))..(a - ((n - 1) \div 2) + n - 1)}
CentredRects(ax, ay, sx, sy) ==
    {xs \X ys : xs \in CentredSpans(ax, sx), ys \in CentredSpans(ay, sy)}

\* C5: a stamped room sets to 1 exactly the in-grid cells of a rectangle of
\* roomSizeX by roomSizeY cells centred on the agent.
C5_RoomRectangle ==
    [][(AtRoomDecision /\ roll' < probGenerateRoom) =>
        \E rect \in CentredRects(agentX, agentY, roomSizeX, roomSizeY) :
            newMap' = [x \in 0..(H - 1) |-> [y \in 0..(W - 1) |->
                         IF <<x, y>> \in rect THEN 1 ELSE newMap[x][y]]]]_vars

\* C6: in a step whose move succeeded, a successful direction-change roll
\* draws a cardinal heading and resets probChangeDirection to the value
\* passed to the call; otherwise probChangeDirection grows by
\* probIncreaseChange.
C6_ChangeDirectionReset ==
    [][(InStep /\ InBounds(agentX + dx, agentY + dy, W, H)) =>
        IF roll' < probChangeDirection
        THEN /\ <<dx', dy'>> \in Cardinals
             /\ probChangeDirection' = argProbChangeDirection
        ELSE probChangeDirection' = probChangeDirection + probIncreaseChange]_vars

\* C7: at a room decision, a stamped room resets probGenerateRoom to the
\* value passed to the call; otherwise probGenerateRoom grows by
\* probIncreaseRoom.
C7_GenerateRoomReset ==
    [][AtRoomDecision =>
        IF roll' < probGenerateRoom
        THEN probGenerateRoom' = argProbGenerateRoom
        ELSE probGenerateRoom' = probGenerateRoom + probIncreaseRoom]_vars

\* C8: a step whose candidate position is outside the grid leaves the agent
\* where it is, leaves probChangeDirection alone, draws no chance, and besides
\* marking the current cell only replaces the heading by a cardinal one.
C8_WallBounce ==
    [][(InStep /\ ~InBounds(agentX + dx, agentY + dy, W, H)) =>
        /\ agentX' = agentX /\ agentY' = agentY
        /\ probChangeDirection' = probChangeDirection
        /\ roll' = NoRoll
        /\ <<dx', dy'>> \in Cardinals
        /\ newMap' = [newMap EXCEPT ![agentX][agentY] = 1]
        /\ i' = i + 1
        /\ UNCHANGED <<H, W, map, caArgs, iteration, mainPc, pc, J, I,
                       roomSizeX, roomSizeY,
                       probGenerateRoom, probIncreaseRoom, probIncreaseChange,
                       j, rooms>>]_vars

C8_Witness ==
    /\ pc = "drunkAgent" /\ i >= 2
    /\ roll = NoRoll
    /\ probChangeDirection > argProbChangeDirection
    /\ <<dx, dy>> # <<0, 1>>

\* C9: on an all-empty input grid with J, I >= 1, the returned grid has more
\* than zero and at most J*I + J*roomSizeX*roomSizeY occupied cells.
C9_OccupiedCount ==
    (AtReturn /\ J >= 1 /\ I >= 1 /\ map = ConstMap(W, H, 0)) =>
        /\ Cardinality(Occupied(newMap, W, H)) > 0
        /\ Cardinality(Occupied(newMap, W, H))
              <= J * I + J * roomSizeX * roomSizeY
\* C14: every drunkAgent call starts with the heading (0,+1) and with both
\* adaptive probabilities equal to the values passed to it, whatever an
\* earlier call did to its own; the agent position is not changed between the
\* end of one call and the start of the next.
C14_FreshFrame ==
    [][/\ (pc = "main" /\ pc' = "drunkAgent") =>
            /\ dx' = 0 /\ dy' = 1
            /\ probGenerateRoom' = argProbGenerateRoom'
            /\ probGenerateRoom' \in ProbGenerateRoomArgs
            /\ probChangeDirection' = argProbChangeDirection'
            /\ probChangeDirection' \in ProbChangeDirectionArgs
       /\ (pc = "main" \/ pc' = "main") =>
            agentX' = agentX /\ agentY' = agentY]_vars

C14_Witness ==
    /\ pc = "drunkAgent" /\ j = 0 /\ i = 0 /\ J >= 1 /\ I >= 1
    /\ roll = NoRoll /\ marked = {} /\ rooms = {}
    /\ <<dx, dy>> = <<0, 1>>
    /\ probChangeDirection = 100 /\ probGenerateRoom = 0
    /\ map \notin AgentGrids(W, H)
    /\ <<agentX, agentY>> # <<0, 0>>
\* ==== properties of the two generators together (checked under SpecMix) ====

\* C15: after any sequence of cellularAutomata and drunkAgent calls the grid
\* still has exactly H rows of exactly W cells, each holding 0 or 1, and H and
\* W are the ones it started with.
C15_GridShape ==
    /\ [](/\ DOMAIN map = 0..(H - 1)
          /\ \A x \in 0..(H - 1) :
                /\ DOMAIN map[x] = 0..(W - 1)
                /\ \A y \in 0..(W - 1) : map[x][y] \in {0, 1})
    /\ [][H' = H /\ W' = W]_vars

C15_Witness ==
    /\ pc = "main"
    /\ caArgs # << >>
    /\ caArgs[1] \notin AgentGrids(W, H)
    /\ \E c \in Cells(W, H) : caArgs[1][c[1]][c[2]] = 1 /\ map[c[1]][c[2]] = 0
    /\ H >= 2 /\ W >= 3
    /\ Occupied(map, W, H) \notin {{}, Cells(W, H)}

\* C17: throughout a drunkAgent call the heading (dx, dy) is one of the four
\* cardinal unit vectors, never (0,0) and never diagonal; an inner step leaves
\* the agent where it is or moves it by exactly the heading, i.e. one cell
\* along one axis, and no other step moves the agent.
C17_CardinalHeading ==
    /\ [](pc = "drunkAgent" =>
            \/ (dx = -1 /\ dy = 0) \/ (dx = 1 /\ dy = 0)
            \/ (dx = 0 /\ dy = -1) \/ (dx = 0 /\ dy = 1))
    /\ [][LET mx == agentX' - agentX
              my == agentY' - agentY
          IN /\ \/ mx = 0 /\ my = 0
                \/ mx \in {-1, 1} /\ my = 0
                \/ mx = 0 /\ my \in {-1, 1}
             /\ (mx # 0 \/ my # 0) =>
                   /\ pc = "drunkAgent" /\ pc' = "drunkAgent"
                   /\ i' = i + 1 /\ j' = j
                   /\ mx = dx /\ my = dy]_vars

C17_Witness ==
    /\ pc = "drunkAgent"
    /\ dx = -1 /\ dy = 0
    /\ roll \in ChanceValues
    /\ Cardinality(marked) >= 2
    /\ <<agentX, agentY>> \notin marked

\* C18: a drunkAgent call with J, I >= 0 makes exactly J*I inner steps and
\* exactly J room decisions and then returns, whatever the random outcomes:
\* the steps still owed, (J - j) * (I + 1) - i, start at J*I + J, drop by one
\* with every inner step (a wall bounce included) and every room decision,
\* some step is always possible, and the call returns only at zero.  The
\* agent moves and a cell is marked only in inner steps, one per step, so at
\* most J*I moves and J*I marked cells.
C18_StepBudget ==
    /\ [](pc = "drunkAgent" =>
            /\ 0 <= j /\ j <= J /\ 0 <= i /\ i <= I
            /\ (J - j) * (I + 1) - i >= 0
            /\ Cardinality(marked) <= j * I + i
            /\ ENABLED (StepMove \/ StepBounce \/ RoomDecision \/ Return))
    /\ [][/\ (pc = "main" /\ pc' = "drunkAgent") =>
               /\ j' = 0 /\ i' = 0 /\ marked' = {}
               /\ (J' - j') * (I' + 1) - i' = J' * I' + J'
          /\ (pc = "drunkAgent" /\ pc' = "drunkAgent") =>
               /\ J' = J /\ I' = I
               /\ (J - j') * (I + 1) - i' = (J - j) * (I + 1) - i - 1
               /\ \/ /\ i < I /\ i' = i + 1 /\ j' = j
                     /\ Cardinality(marked' \ marked) <= 1
                  \/ /\ i = I /\ i' = 0 /\ j' = j + 1
                     /\ agentX' = agentX /\ agentY' = agentY
                     /\ marked' = marked
          /\ (pc = "drunkAgent" /\ pc' = "main") =>
               /\ (J - j) * (I + 1) - i = 0
               /\ j = J /\ i = 0
               /\ agentX' = agentX /\ agentY' = agentY]_vars

C18_Witness ==
    /\ pc = "drunkAgent"
    /\ J = MaxJ /\ I = MaxI
    /\ j = J - 1 /\ i = I
    /\ roll = NoRoll
    /\ Cardinality(marked) < j * I + i

\* C19: in a step whose move succeeded the heading is always re-rolled (and
\* probChangeDirection reset) when probChangeDirection >= 1 and never when it
\* is <= 0; a room decision always stamps a room when probGenerateRoom >= 1
\* and never when it is <= 0.  Hence with positive increments neither
\* probability gets a full increment past 1: the run of successful moves
\* without a re-roll, and of walks without a room, ends at the first roll
\* made at a probability >= 1.
C19_CertainRolls ==
    /\ [][/\ (/\ pc = "drunkAgent" /\ j < J /\ i < I
               /\ <<agentX', agentY'>> = <<agentX + dx, agentY + dy>>) =>
               /\ probChangeDirection >= 100 =>
                     /\ probChangeDirection' = ResetProbChange
                     /\ <<dx', dy'>> \in Cardinals
               /\ probChangeDirection <= 0 =>
                     /\ probChangeDirection' =
                          probChangeDirection + probIncreaseChange
                     /\ dx' = dx /\ dy' = dy
          /\ (pc = "drunkAgent" /\ j < J /\ i >= I) =>
               /\ probGenerateRoom >= 100 =>
                     /\ rooms' = rooms \cup {<<agentX, agentY>>}
                     /\ \A x \in 0..(H - 1), y \in 0..(W - 1) :
                          (x = agentX /\ y = agentY) => newMap'[x][y] = 1
                     /\ probGenerateRoom' = ResetProbRoom
               /\ probGenerateRoom <= 0 =>
                     /\ newMap' = newMap /\ rooms' = rooms
                     /\ probGenerateRoom' =
                          probGenerateRoom + probIncreaseRoom]_vars
    /\ [](pc = "drunkAgent" =>
            /\ probIncreaseChange > 0 =>
                  probChangeDirection < 100 + probIncreaseChange
            /\ probIncreaseRoom > 0 =>
                  probGenerateRoom < 100 + probIncreaseRoom)

C19_Witness ==
    /\ pc = "drunkAgent"
    /\ argProbChangeDirection = 0
    /\ i > 0
    /\ roll = 99
    /\ probChangeDirection = ResetProbChange
    /\ probGenerateRoom >= 100

\* ==== properties of main (checked under SpecMain) ==========================

\* C16: main runs exactly 5 iterations; each runs one cellularAutomata step
\* and then one drunkAgent call on that step's output, the map changes nowhere
\* else, so an iteration starts from the grid the previous drunkAgent call
\* returned; then main finishes.
C16_Alternation ==
    /\ [][/\ (mainPc = "loop" /\ mainPc' # "loop") =>
               IF iteration < 5
               THEN /\ mainPc' = "drunkAgent"
                    /\ map' = cellularAutomata(map, W, H, ca_R, ca_U)
                    /\ iteration' = iteration
               ELSE /\ mainPc' = "finished"
                    /\ map' = map /\ iteration' = iteration
          /\ (mainPc = "drunkAgent" /\ pc = "main") =>
               /\ pc' = "drunkAgent" /\ newMap' = map
               /\ map' = map /\ mainPc' = mainPc
          /\ (mainPc = "drunkAgent" /\ mainPc' # "drunkAgent") =>
               /\ pc = "drunkAgent" /\ pc' = "main"
               /\ mainPc' = "loop" /\ iteration' = iteration + 1
               /\ map' = newMap
          /\ map' # map => mainPc' # mainPc
          /\ mainPc = "finished" => mainPc' = "finished" /\ map' = map]_vars
    /\ [](iteration <= 5 /\ (mainPc = "finished" => iteration = 5))
    /\ <>(mainPc = "finished")

C16_Witness ==
    /\ mainPc = "finished" /\ iteration = 5
    /\ H >= 2 /\ W >= 3
    /\ map # ConstMap(W, H, 0)
====
